---- MODULE Spec2Model ----
(***************************************************************************)
(* BertDataset (libai/data/bert_dataset.py): construction of one BERT      *)
(* pretraining sample by __getitem__ -> create_training_sample, as a state *)
(* machine.  Python lists are sequences; list positions stay 0-based as in *)
(* the source (position i of a list t is t[i + 1] here).  Every draw on    *)
(* np_rng is a choice among the outcomes the call can produce.  A Python   *)
(* exception ends the call: pc = "done" with err naming the exception and  *)
(* errline the source line that raised it.                                 *)
(***************************************************************************)
EXTENDS Integers, Sequences, FiniteSets, TLC

----------------------------------------------------------------------------
(* Bounds of the model *)

MaxSentences == 3       \* sentences in a document
MaxSentLen == 2         \* tokens in a sentence
MaxDocTokens == 3       \* tokens in a document
MaxSeqLength == 6       \* the largest configured max_seq_length

----------------------------------------------------------------------------
(* The tokenizer: special ids and the id -> piece table (inv_vocab) *)

pad_id == 0
cls_id == 1
sep_id == 2
mask_id == 3

\* inv_vocab: pieces are sequences of characters
vocab_id_to_token_dict ==
    (0 :> <<"[", "P", "A", "D", "]">>) @@ (1 :> <<"[", "C", "L", "S", "]">>)
    @@ (2 :> <<"[", "S", "E", "P", "]">>) @@ (3 :> <<"[", "M", "A", "S", "K", "]">>)
    @@ (4 :> <<"p", "l", "a", "y">>) @@ (5 :> <<"#", "#", "i", "n", "g">>)

vocab_id_list == DOMAIN vocab_id_to_token_dict

\* the ids a corpus sentence is made of: 4 starts a word, 5 continues one
WordIds == {4, 5}

\* piece.startswith("##")
StartsWithHashes(piece) == Len(piece) >= 2 /\ piece[1] = "#" /\ piece[2] = "#"

\* a test for a marker no piece carries: every piece starts a word
is_start_piece_wrong_marker(piece) == ~(Len(piece) >= 1 /\ piece[1] = "@")

is_start_piece(piece) == ~StartsWithHashes(piece)

----------------------------------------------------------------------------
(* Helpers on sequences *)

RECURSIVE FlattenReversed(_)
\* the lists joined last to first
FlattenReversed(ss) ==
    IF ss = <<>> THEN <<>> ELSE FlattenReversed(Tail(ss)) \o Head(ss)

RECURSIVE Flatten(_)
\* sum(list_of_lists, []) and the extend loops: concatenation in order
Flatten(ss) == IF ss = <<>> THEN <<>> ELSE Head(ss) \o Flatten(Tail(ss))

\* the Python slice s[lo:hi] of a list (0-based, clipped at the end)
Slice(s, lo, hi) ==
    LET h == IF hi > Len(s) THEN Len(s) ELSE hi
    IN  IF lo >= h THEN <<>> ELSE SubSeq(s, lo + 1, h)

Range(s) == {s[i] : i \in DOMAIN s}

Min(a, b) == IF a < b THEN a ELSE b
Max(a, b) == IF a > b THEN a ELSE b

SeqsUpTo(S, n) == UNION {[1..k -> S] : k \in 0..n}

Sentences == SeqsUpTo(WordIds, MaxSentLen) \ {<<>>}

Docs == {d \in SeqsUpTo(Sentences, MaxSentences) : Len(Flatten(d)) <= MaxDocTokens}

Perms(n) == {p \in [1..n -> 1..n] : \A i, j \in 1..n : p[i] = p[j] => i = j}

----------------------------------------------------------------------------
(* Configuration values the model draws from *)

\* mask_lm_prob in hundredths: 0, 0.15 (the default) and 0.5
MaskLmProbs == {0, 15, 50}

\* the max_preds_per_seq argument: <<>> is None, <<k>> is the number k
MaxPredsArgs == {<<>>, <<2>>}

\* 2 ** 16: a seed s is held as <<h, l>> with s = h * 2 ** 16 + l, 0 <= l < 2 ** 16
Limb == 65536

\* base seeds: 1234 (the default), 2 ** 32 - 1 and 2 ** 32 + 7
Seeds == {<<0, 1234>>, <<65535, 65535>>, <<65536, 7>>}

\* outcomes of np_rng.random() where it is compared with the threshold th
\* (in hundredths): one just below the threshold and the threshold itself
UVals(th) == {<<th - 1>>, <<th>>}

\* the configured max_seq_length: one where the longest documents do not fit
\* beside the three special tokens, and one where they do
MaxSeqLengths == {MaxSeqLength - 1, MaxSeqLength}

\* the target_seq_length values of the sample index: nothing fits, two tokens
\* fit, all fits, and more than max_seq_length
TargetSeqLengths(msl) == {0, 2, msl, msl + 1}

\* round(x) of Python 3 for x = num / den >= 0: to nearest, halves to even
RoundHalfEven(num, den) ==
    LET q == num \div den
        r == num % den
    IN  IF 2 * r < den THEN q
        ELSE IF 2 * r > den THEN q + 1
        ELSE IF q % 2 = 0 THEN q ELSE q + 1

\* math.ceil(num / den) for num >= 0, den > 0
Ceil(num, den) == (num + den - 1) \div den

\* a derived cap that rounds down to the ten below
InitMaxPredsRoundedDown(arg, prob, msl) ==
    IF arg = <<>> THEN ((msl * prob) \div 1000) * 10 ELSE arg[1]

\* __init__: max_preds_per_seq, derived when the argument is None
InitMaxPreds(arg, prob, msl) ==
    IF arg = <<>> THEN Ceil(msl * prob, 1000) * 10 ELSE arg[1]

max_ngrams == 3

----------------------------------------------------------------------------
VARIABLES
    \* the dataset object
    seed, mask_lm_prob, max_seq_length, binary_head, max_preds_per_seq,
    indexed_dataset, samples_mapping,
    \* np.random.RandomState: what each seed's stream has produced so far
    streams,
    \* the call in progress
    pc, err, errline, idx, sample, target_seq_length, np_rng,
    a_end, tokens_a, tokens_b, is_next_random, len_a, len_b,
    tokens, token_types,
    cand_indexes, output_tokens, num_to_predict, ngram_indexes, cand_pos,
    n_drawn, index_set, commit_pos, masked_lms, covered_indexes,
    masked_positions, masked_labels,
    tokens_np, token_types_np, labels_np, padding_mask_np, loss_mask_np,
    \* finished calls: how many, and sample ordinal -> what the first call on
    \* it ended with
    ncalls, results,
    \* the other call in progress on the dataset, while this one runs
    parked

datasetVars == <<seed, mask_lm_prob, max_seq_length, binary_head, max_preds_per_seq,
                 indexed_dataset, samples_mapping>>
rngVars == <<np_rng, streams>>
entryVars == <<idx, sample, target_seq_length>>
splitVars == <<a_end, tokens_a, tokens_b, is_next_random>>
truncVars == <<len_a, len_b>>
asmVars == <<tokens, token_types>>
planVars == <<cand_indexes, output_tokens, num_to_predict, ngram_indexes, cand_pos,
              n_drawn, index_set, commit_pos, masked_lms, covered_indexes,
              masked_positions, masked_labels>>
padVars == <<tokens_np, token_types_np, labels_np, padding_mask_np, loss_mask_np>>
ctlVars == <<pc, err, errline>>

vars == <<datasetVars, rngVars, entryVars, splitVars, truncVars, asmVars, planVars,
          padVars, ctlVars, ncalls, results, parked>>

----------------------------------------------------------------------------
(* np_rng: a RandomState is its seed and the draws made on it so far.  The  *)
(* stream of a seed is fixed: a draw at a place of the stream that an       *)
(* earlier RandomState of the same seed already reached repeats it.         *)

Stream(key) == IF key \in DOMAIN streams THEN streams[key] ELSE <<>>

\* the outcomes, among those of S, that the draw on np_rng after the draws
\* vs can have
OutcomesAfter(vs, S) ==
    LET st == Stream(np_rng.seed)
        n == Len(np_rng.draws) + Len(vs)
    IN  IF n < Len(st) THEN {v \in S : v = st[n + 1]} ELSE S

\* the outcomes, among those of S, that the next draw on np_rng can have
Outcomes(S) == OutcomesAfter(<<>>, S)

\* the RandomState after the draws vs, in order
Advance(rng, vs) == [rng EXCEPT !.draws = @ \o vs]

\* the streams after np_rng has drawn vs
Recorded(vs) ==
    LET key == np_rng.seed
        now == np_rng.draws \o vs
        old == Stream(key)
    IN  [k \in DOMAIN streams \cup {key} |->
            IF k = key THEN (IF Len(now) > Len(old) THEN now ELSE old)
            ELSE streams[k]]

\* np_rng makes the draws vs
Draw(vs) == /\ np_rng' = Advance(np_rng, vs)
            /\ streams' = Recorded(vs)

\* (self.seed + idx) % 2 ** 32, on limbs
SeedOf(sd, i) ==
    LET lo == sd[2] + i
    IN  <<(sd[1] + lo \div Limb) % Limb, lo % Limb>>

\* random.randint of Python, whose upper end is included
RandintInclusive(lo, hi) == {<<e>> : e \in lo..hi}

\* what np_rng.randint(lo, hi) can return: the upper end is excluded
Randint(lo, hi) == {<<e>> : e \in lo..(hi - 1)}

----------------------------------------------------------------------------
(* Raising: the exception propagates out of __getitem__ *)

Raise(kind, line) == /\ pc' = "done"
                     /\ err' = kind
                     /\ errline' = line

Goto(label) == /\ pc' = label
               /\ UNCHANGED <<err, errline>>

----------------------------------------------------------------------------
(* __getitem__ and create_training_sample up to the token assembly *)

\* the locals of a call before anything is bound to them
FreshLocals ==
    /\ a_end = 0 /\ tokens_a = <<>> /\ tokens_b = <<>> /\ is_next_random = FALSE
    /\ len_a = 0 /\ len_b = 0
    /\ tokens = <<>> /\ token_types = <<>>
    /\ cand_indexes = <<>> /\ output_tokens = <<>> /\ num_to_predict = 0
    /\ ngram_indexes = <<>> /\ cand_pos = 0 /\ n_drawn = 0 /\ index_set = <<>>
    /\ commit_pos = 0 /\ masked_lms = <<>> /\ covered_indexes = {}
    /\ masked_positions = <<>> /\ masked_labels = <<>>
    /\ tokens_np = <<>> /\ token_types_np = <<>> /\ labels_np = <<>>
    /\ padding_mask_np = <<>> /\ loss_mask_np = <<>>

\* a call starts with none of its locals bound
NewFrame ==
    /\ a_end' = 0 /\ tokens_a' = <<>> /\ tokens_b' = <<>> /\ is_next_random' = FALSE
    /\ len_a' = 0 /\ len_b' = 0
    /\ tokens' = <<>> /\ token_types' = <<>>
    /\ cand_indexes' = <<>> /\ output_tokens' = <<>> /\ num_to_predict' = 0
    /\ ngram_indexes' = <<>> /\ cand_pos' = 0 /\ n_drawn' = 0 /\ index_set' = <<>>
    /\ commit_pos' = 0 /\ masked_lms' = <<>> /\ covered_indexes' = {}
    /\ masked_positions' = <<>> /\ masked_labels' = <<>>
    /\ tokens_np' = <<>> /\ token_types_np' = <<>> /\ labels_np' = <<>>
    /\ padding_mask_np' = <<>> /\ loss_mask_np' = <<>>

\* a RandomState that is the one the previous call left behind
RandomStateLeftOver(key) == np_rng

\* np.random.RandomState(seed=key)
RandomState(key) == [seed |-> key, draws |-> <<>>]

\* __getitem__(i): the sentences of the sample and a RandomState of its own
GetItem(i) ==
    /\ pc = "idle"
    /\ i \in 0..(Len(samples_mapping) - 1)
    /\ LET entry == samples_mapping[i + 1]
       IN  /\ sample' = Slice(indexed_dataset, entry[1], entry[2])
           /\ target_seq_length' = entry[3]
    /\ idx' = i
    /\ np_rng' = RandomState(SeedOf(seed, i))
    /\ Goto("checks")
    /\ NewFrame
    /\ UNCHANGED <<datasetVars, streams, ncalls, results, parked>>

\* the entry of create_training_sample without the assertion on the number
\* of sentences
EntryChecksWithoutSentenceCount ==
    /\ pc = "checks"
    /\ IF ~(target_seq_length <= max_seq_length) THEN Raise("AssertionError", 89)
       ELSE Goto("split")
    /\ UNCHANGED <<datasetVars, rngVars, entryVars, splitVars, truncVars, asmVars,
                   planVars, padVars, ncalls, results, parked>>

\* create_training_sample: the two assertions on entry
EntryChecks ==
    /\ pc = "checks"
    /\ IF binary_head /\ ~(Len(sample) > 1) THEN Raise("AssertionError", 88)
       ELSE IF ~(target_seq_length <= max_seq_length) THEN Raise("AssertionError", 89)
       ELSE Goto("split")
    /\ UNCHANGED <<datasetVars, rngVars, entryVars, splitVars, truncVars, asmVars,
                   planVars, padVars, ncalls, results, parked>>

\* create_random_sentence_pair up to the swap: the assertion on the number of
\* sentences, the split point and the two segments in document order
CreateRandomSentencePair ==
    /\ pc = "split"
    /\ binary_head
    /\ LET num_sentences == Len(sample)
       IN  IF ~(num_sentences > 1)
           THEN /\ Raise("AssertionError", 128)
                /\ UNCHANGED <<rngVars, a_end, tokens_a, tokens_b>>
           ELSE /\ \E v \in (IF num_sentences >= 3
                              THEN Outcomes(Randint(1, num_sentences))
                              ELSE {<<>>}) :
                      /\ a_end' = (IF v = <<>> THEN 1 ELSE v[1])
                      /\ Draw(IF v = <<>> THEN <<>> ELSE <<v>>)
                      /\ tokens_a' = Flatten(Slice(sample, 0, a_end'))
                      /\ tokens_b' = Flatten(Slice(sample, a_end', num_sentences))
                /\ Goto("swap")
    /\ is_next_random' = FALSE
    /\ UNCHANGED <<datasetVars, entryVars, truncVars, asmVars, planVars, padVars,
                   ncalls, results, parked>>

\* create_random_sentence_pair from the swap draw on: the return statement
\* names is_random_next, which nothing binds (the flag is is_next_random)
SwapAndReturn ==
    /\ pc = "swap"
    /\ \E u \in Outcomes(UVals(50)) :
          /\ Draw(<<u>>)
          /\ IF u[1] < 50
             THEN /\ is_next_random' = TRUE
                  /\ tokens_a' = tokens_b
                  /\ tokens_b' = tokens_a
             ELSE UNCHANGED <<is_next_random, tokens_a, tokens_b>>
    /\ Raise("NameError", 146)
    /\ UNCHANGED <<datasetVars, entryVars, a_end, truncVars, asmVars, planVars,
                   padVars, ncalls, results, parked>>

\* create_training_sample without the binary head: everything is segment A
ConcatAllSentences ==
    /\ pc = "split"
    /\ ~binary_head
    /\ tokens_a' = Flatten(sample)
    /\ tokens_b' = <<>>
    /\ is_next_random' = FALSE
    /\ Goto("truncate")
    /\ UNCHANGED <<datasetVars, rngVars, entryVars, a_end, truncVars, asmVars,
                   planVars, padVars, ncalls, results, parked>>

\* a truncation loop whose pass takes nothing off and raises nothing
TruncateSeqPairSpinning ==
    /\ pc = "truncate"
    /\ LET la == Len(tokens_a)
           lb == Len(tokens_b)
           max_num_tokens == target_seq_length
       IN  IF la + lb <= max_num_tokens
           THEN /\ len_a' = la
                /\ len_b' = lb
                /\ Goto("assemble")
           ELSE /\ len_a' = la
                /\ len_b' = lb
                /\ Goto("truncate")
    /\ UNCHANGED <<datasetVars, rngVars, entryVars, splitVars, asmVars, planVars,
                   padVars, ncalls, results, parked>>

\* truncate_seq_pair: returns at once when the pair fits; otherwise the first
\* pass of the loop counts one token off the longer side and then reads rng,
\* which nothing binds (the parameter is np_rng), so no token is ever popped
TruncateSeqPair ==
    /\ pc = "truncate"
    /\ LET la == Len(tokens_a)
           lb == Len(tokens_b)
           max_num_tokens == target_seq_length
       IN  IF la + lb <= max_num_tokens
           THEN /\ len_a' = la
                /\ len_b' = lb
                /\ Goto("assemble")
           ELSE /\ len_a' = (IF la > lb THEN la - 1 ELSE la)
                /\ len_b' = (IF la > lb THEN lb ELSE lb - 1)
                /\ Raise("NameError", 162)
    /\ UNCHANGED <<datasetVars, rngVars, entryVars, splitVars, asmVars, planVars,
                   padVars, ncalls, results, parked>>

\* an assembly that closes the sequence with two separators
TokensOfWithTwoClosingSeps(ta, tb) ==
    <<cls_id>> \o ta \o <<sep_id>> \o tb \o <<sep_id, sep_id>>

\* create_tokens_and_token_types
TokensOf(ta, tb) == <<cls_id>> \o ta \o <<sep_id>> \o tb \o <<sep_id>>

\* token types that change before the first [SEP] instead of after it
TokenTypesOfSplitAtA(ta, tb) ==
    [i \in 1..(Len(ta) + 1) |-> 0] \o [i \in 1..(Len(tb) + 2) |-> 1]

TokenTypesOf(ta, tb) == [i \in 1..(Len(ta) + 2) |-> 0] \o [i \in 1..(Len(tb) + 1) |-> 1]

CreateTokensAndTokenTypes ==
    /\ pc = "assemble"
    /\ tokens' = TokensOf(tokens_a, tokens_b)
    /\ token_types' = TokenTypesOf(tokens_a, tokens_b)
    /\ Goto("mask")
    /\ UNCHANGED <<datasetVars, rngVars, entryVars, splitVars, truncVars, planVars,
                   padVars, ncalls, results, parked>>

----------------------------------------------------------------------------
(* create_masked_lm_predictions, called with its defaults *)

do_whole_word_mask == TRUE

RECURSIVE CandIndexesUpToWithSpecials(_, _)
\* a scan that does not pass over cls_id and sep_id
CandIndexesUpToWithSpecials(toks, k) ==
    IF k = 0 THEN <<>>
    ELSE LET prev == CandIndexesUpToWithSpecials(toks, k - 1)
             i == k - 1
             token == toks[k]
         IN  IF /\ do_whole_word_mask
                /\ Len(prev) >= 1
                /\ ~is_start_piece(vocab_id_to_token_dict[token])
             THEN [prev EXCEPT ![Len(prev)] = Append(@, i)]
             ELSE Append(prev, <<i>>)

RECURSIVE CandIndexesUpTo(_, _)
\* cand_indexes after the scan of the first k tokens
CandIndexesUpTo(toks, k) ==
    IF k = 0 THEN <<>>
    ELSE LET prev == CandIndexesUpTo(toks, k - 1)
             i == k - 1
             token == toks[k]
         IN  IF token = cls_id \/ token = sep_id THEN prev
             ELSE IF /\ do_whole_word_mask
                     /\ Len(prev) >= 1
                     /\ ~is_start_piece(vocab_id_to_token_dict[token])
                  THEN [prev EXCEPT ![Len(prev)] = Append(@, i)]
                  ELSE Append(prev, <<i>>)

CandIndexes(toks) == CandIndexesUpTo(toks, Len(toks))

\* num_to_predict for a sequence of n tokens
NumToPredict(n) == Min(max_preds_per_seq, Max(1, RoundHalfEven(n * mask_lm_prob, 100)))

\* n-gram lists whose slices go on from the first group after the last one
NgramIndexesWrapping(cands) ==
    [i \in 1..Len(cands) |->
        [n \in 1..max_ngrams |->
            [j \in 1..n |-> cands[((i + j - 2) % Len(cands)) + 1]]]]

\* ngram_indexes before the shuffle: for each group index, the slices
\* cand_indexes[idx:idx + n] for n = 1 .. max_ngrams
NgramIndexes(cands) ==
    [i \in 1..Len(cands) |-> [n \in 1..max_ngrams |-> Slice(cands, i - 1, i - 1 + n)]]

\* the list l in the order np_rng.shuffle leaves it in, for the permutation p
Shuffled(l, p) == [i \in 1..Len(l) |-> l[p[i]]]

\* a budget test that forgets the n-gram about to be added
OverBudgetIgnoringNgram(have, ngram, budget) == have > budget

\* len(masked_lms) + len(index_set) > num_to_predict
OverBudget(have, ngram, budget) == have + Len(ngram) > budget

\* no retry: the drawn n stands whether its n-gram fits or not
ResolveNWithoutRetry(cand_index_set, n, have, budget) == n

RECURSIVE ResolveN(_, _, _, _)
\* the n whose n-gram the retry loop ends on: the drawn n, then shorter ones
\* while the n-gram does not fit in the budget
ResolveN(cand_index_set, n, have, budget) ==
    IF OverBudget(have, Flatten(cand_index_set[n]), budget) /\ n > 1
    THEN ResolveN(cand_index_set, n - 1, have, budget)
    ELSE n

\* index_set after the retry loop
ResolveIndexSet(cand_index_set, n, have, budget) ==
    Flatten(cand_index_set[ResolveN(cand_index_set, n, have, budget)])

\* the committed pairs left in the order they were committed in
Unsorted(lms) == lms

\* sorted(masked_lms, key=lambda x: x.index): stable, ascending by index.  The
\* pair at place k goes to the place after the pairs of a smaller index and
\* the earlier pairs of the same index
SortedByIndex(lms) ==
    LET place(k) == 1 + Cardinality({j \in DOMAIN lms :
                                       \/ lms[j].index < lms[k].index
                                       \/ lms[j].index = lms[k].index /\ j < k})
    IN  [r \in DOMAIN lms |-> lms[CHOOSE k \in DOMAIN lms : place(k) = r]]

\* an overlap test that passes an n-gram over only when all of it is covered
IsEveryIndexCovered(ngram, covered) == \A index \in Range(ngram) : index \in covered

\* is_any_index_covered after the loop over index_set
IsAnyIndexCovered(ngram, covered) == \E index \in Range(ngram) : index \in covered

\* the candidate groups, num_to_predict, the n-gram lists and their shuffle
\* (with mask_lm_prob == 0 the early return reads output_tokens before it is
\* assigned)
MaskBegin ==
    /\ pc = "mask"
    /\ IF mask_lm_prob = 0
       THEN /\ Raise("UnboundLocalError", 202)
            /\ UNCHANGED <<rngVars, cand_indexes, output_tokens, num_to_predict,
                           ngram_indexes>>
       ELSE /\ cand_indexes' = CandIndexes(tokens)
            /\ output_tokens' = tokens
            /\ num_to_predict' = NumToPredict(Len(tokens))
            /\ \E p \in Outcomes(Perms(Len(cand_indexes'))) :
                  /\ Draw(<<p>>)
                  /\ ngram_indexes' = Shuffled(NgramIndexes(cand_indexes'), p)
            /\ Goto("mask_loop")
    /\ masked_lms' = <<>>
    /\ covered_indexes' = {}
    /\ masked_positions' = <<>>
    /\ masked_labels' = <<>>
    /\ UNCHANGED <<datasetVars, entryVars, splitVars, truncVars, asmVars, cand_pos,
                   n_drawn, index_set, commit_pos, padVars, ncalls, results, parked>>

\* one pass of the candidate loop up to the commit: the break test, the draw
\* of n, the retry with shorter n-grams, the budget and the overlap tests
\* (the loop over cand_index_set[0] before the draw changes nothing: its
\* continue belongs to the inner loop)
MaskCandidate ==
    /\ pc = "mask_loop"
    /\ cand_pos < Len(ngram_indexes)
    /\ Len(masked_lms) < num_to_predict
    /\ LET cand_index_set == ngram_indexes[cand_pos + 1]
       IN  IF cand_index_set = <<>>
           THEN /\ cand_pos' = cand_pos + 1
                /\ Goto("mask_loop")
                /\ UNCHANGED <<rngVars, n_drawn, index_set, commit_pos>>
           ELSE \E v \in Outcomes({<<n>> : n \in 1..Len(cand_index_set)}) :
                   /\ Draw(<<v>>)
                   /\ n_drawn' = v[1]
                   /\ index_set' = ResolveIndexSet(cand_index_set, v[1],
                                                   Len(masked_lms), num_to_predict)
                   /\ commit_pos' = 0
                   /\ IF \/ OverBudget(Len(masked_lms), index_set', num_to_predict)
                         \/ IsAnyIndexCovered(index_set', covered_indexes)
                         \* nothing to commit: the commit loop has no pass
                         \/ index_set' = <<>>
                      THEN /\ cand_pos' = cand_pos + 1
                           /\ Goto("mask_loop")
                      ELSE /\ cand_pos' = cand_pos
                           /\ Goto("mask_commit")
    /\ UNCHANGED <<datasetVars, entryVars, splitVars, truncVars, asmVars,
                   cand_indexes, output_tokens, num_to_predict, ngram_indexes,
                   masked_lms, covered_indexes, masked_positions, masked_labels,
                   padVars, ncalls, results, parked>>

\* one pass of the commit loop: the index is covered, mask_token replaces the
\* token and the original id is recorded (the random-id branch of mask_token
\* reads np.rng, which numpy does not have)
MaskCommit ==
    /\ pc = "mask_commit"
    /\ LET index == index_set[commit_pos + 1]
           label == output_tokens[index + 1]
           last == (commit_pos + 1 = Len(index_set))
       IN  /\ covered_indexes' = covered_indexes \cup {index}
           /\ \E u1 \in Outcomes(UVals(80)) :
                 IF u1[1] < 80
                 THEN /\ Draw(<<u1>>)
                      /\ output_tokens' = [output_tokens EXCEPT ![index + 1] = mask_id]
                      /\ masked_lms' = Append(masked_lms, [index |-> index, label |-> label])
                      /\ commit_pos' = commit_pos + 1
                      /\ cand_pos' = (IF last THEN cand_pos + 1 ELSE cand_pos)
                      /\ Goto(IF last THEN "mask_loop" ELSE "mask_commit")
                 ELSE \E u2 \in OutcomesAfter(<<u1>>, UVals(50)) :
                         /\ Draw(<<u1, u2>>)
                         /\ IF u2[1] < 50
                            THEN /\ output_tokens' = [output_tokens EXCEPT ![index + 1] = label]
                                 /\ masked_lms' = Append(masked_lms,
                                                         [index |-> index, label |-> label])
                                 /\ commit_pos' = commit_pos + 1
                                 /\ cand_pos' = (IF last THEN cand_pos + 1 ELSE cand_pos)
                                 /\ Goto(IF last THEN "mask_loop" ELSE "mask_commit")
                            ELSE /\ Raise("AttributeError", 187)
                                 /\ UNCHANGED <<output_tokens, masked_lms, commit_pos,
                                                cand_pos>>
    /\ UNCHANGED <<datasetVars, entryVars, splitVars, truncVars, asmVars,
                   cand_indexes, num_to_predict, ngram_indexes, n_drawn, index_set,
                   masked_positions, masked_labels, padVars, ncalls, results, parked>>

\* an end of the candidate loop that takes a plan short of num_to_predict for
\* an error
MaskLoopExitStrict ==
    /\ pc = "mask_loop"
    /\ \/ cand_pos >= Len(ngram_indexes)
       \/ Len(masked_lms) >= num_to_predict
    /\ IF Len(masked_lms) < num_to_predict
       THEN /\ Raise("AssertionError", 288)
            /\ UNCHANGED <<masked_lms, masked_positions, masked_labels, tokens>>
       ELSE LET sorted == SortedByIndex(masked_lms)
            IN  /\ masked_lms' = sorted
                /\ masked_positions' = [k \in 1..Len(sorted) |-> sorted[k].index]
                /\ masked_labels' = [k \in 1..Len(sorted) |-> sorted[k].label]
                /\ tokens' = output_tokens
                /\ Goto("pad")
    /\ UNCHANGED <<datasetVars, rngVars, entryVars, splitVars, truncVars, token_types,
                   cand_indexes, output_tokens, num_to_predict, ngram_indexes,
                   cand_pos, n_drawn, index_set, commit_pos, covered_indexes,
                   padVars, ncalls, results, parked>>

\* the candidate loop is over (the break, or no entry left): the committed
\* pairs are sorted by position and returned as two lists
MaskLoopExit ==
    /\ pc = "mask_loop"
    /\ \/ cand_pos >= Len(ngram_indexes)
       \/ Len(masked_lms) >= num_to_predict
    /\ LET sorted == SortedByIndex(masked_lms)
       IN  /\ masked_lms' = sorted
           /\ masked_positions' = [k \in 1..Len(sorted) |-> sorted[k].index]
           /\ masked_labels' = [k \in 1..Len(sorted) |-> sorted[k].label]
    \* the caller rebinds tokens to the returned output_tokens
    /\ tokens' = output_tokens
    /\ Goto("pad")
    /\ UNCHANGED <<datasetVars, rngVars, entryVars, splitVars, truncVars, token_types,
                   cand_indexes, output_tokens, num_to_predict, ngram_indexes,
                   cand_pos, n_drawn, index_set, commit_pos, covered_indexes,
                   padVars, ncalls, results, parked>>

----------------------------------------------------------------------------
(* pad_and_convert_to_numpy and the sample record *)

\* a list one entry longer than [x] * n
RepeatOneMore(x, n) == [i \in 1..(n + 1) |-> x]

\* [x] * n
Repeat(x, n) == [i \in 1..n |-> x]

\* the list [fill] * n after lst[positions[k]] = values[k] for each k in order
Scattered(fill, n, positions, values) ==
    [i \in 1..n |->
        LET hits == {k \in 1..Min(Len(positions), Len(values)) : positions[k] = i - 1}
        IN  IF hits = {} THEN fill
            ELSE values[CHOOSE k \in hits : \A j \in hits : j <= k]]

\* labels that start from 0 instead of -1
LabelsArrayZeroFilled(n, positions, values) == Scattered(0, n, positions, values)

\* labels = [-1] * max_seq_length, then labels[idx] = label for each pair
LabelsArray(n, positions, values) == Scattered(-1, n, positions, values)

\* loss_mask = [0] * max_seq_length, then loss_mask[idx] = 1 for each pair
LossMaskArray(n, positions) == Scattered(0, n, positions, Repeat(1, Len(positions)))

\* pad_and_convert_to_numpy without the assertion on num_pad: a list times a
\* negative number is the empty list
PadAndConvertToNumpyUnchecked ==
    /\ pc = "pad"
    /\ LET num_tokens == Len(tokens)
           num_pad == max_seq_length - num_tokens
       IN  /\ tokens_np' = tokens \o Repeat(pad_id, num_pad)
           /\ token_types_np' = token_types \o Repeat(pad_id, num_pad)
           /\ padding_mask_np' = Repeat(1, num_tokens) \o Repeat(0, num_pad)
           /\ labels_np' = LabelsArray(max_seq_length, masked_positions, masked_labels)
           /\ loss_mask_np' = LossMaskArray(max_seq_length, masked_positions)
           /\ Goto("build")
    /\ UNCHANGED <<datasetVars, rngVars, entryVars, splitVars, truncVars, asmVars,
                   planVars, ncalls, results, parked>>

PadAndConvertToNumpy ==
    /\ pc = "pad"
    /\ LET num_tokens == Len(tokens)
           num_pad == max_seq_length - num_tokens
       IN  IF ~(num_pad >= 0) THEN /\ Raise("AssertionError", 301)
                                   /\ UNCHANGED padVars
           ELSE IF Len(token_types) # num_tokens THEN /\ Raise("AssertionError", 302)
                                                      /\ UNCHANGED padVars
           ELSE IF Len(masked_positions) # Len(masked_labels)
                THEN /\ Raise("AssertionError", 303)
                     /\ UNCHANGED padVars
           ELSE IF \E k \in DOMAIN masked_positions : ~(masked_positions[k] < num_tokens)
                THEN /\ Raise("AssertionError", 317)
                     /\ UNCHANGED padVars
           ELSE /\ tokens_np' = tokens \o Repeat(pad_id, num_pad)
                /\ token_types_np' = token_types \o Repeat(pad_id, num_pad)
                /\ padding_mask_np' = Repeat(1, num_tokens) \o Repeat(0, num_pad)
                /\ labels_np' = LabelsArray(max_seq_length, masked_positions,
                                           masked_labels)
                /\ loss_mask_np' = LossMaskArray(max_seq_length, masked_positions)
                /\ Goto("build")
    /\ UNCHANGED <<datasetVars, rngVars, entryVars, splitVars, truncVars, asmVars,
                   planVars, ncalls, results, parked>>

\* the train_sample record: its 'truncated' entry reads truncated, which
\* nothing binds, so the record is never built and nothing is returned (the
\* entry also closes the record one line early: the brace of line 119 is left
\* over, and the file as it stands does not parse)
BuildTrainSample ==
    /\ pc = "build"
    /\ Raise("NameError", 118)
    /\ UNCHANGED <<datasetVars, rngVars, entryVars, splitVars, truncVars, asmVars,
                   planVars, padVars, ncalls, results, parked>>

----------------------------------------------------------------------------
(* The dataset after construction, and one __getitem__ call on it *)

\* __init__, with one entry in the sample index: the whole corpus
Constructed(ds, t, msl, bh, prob, mp, sd) ==
    /\ seed = sd
    /\ mask_lm_prob = prob
    /\ max_seq_length = msl
    /\ binary_head = bh
    /\ max_preds_per_seq = InitMaxPreds(mp, prob, msl)
    /\ indexed_dataset = ds
    /\ samples_mapping = << <<0, Len(ds), t>> >>

\* the frame of a call that has not started
IdleFrame ==
    [pc |-> "idle", err |-> "none", errline |-> 0,
     idx |-> 0, sample |-> <<>>, target_seq_length |-> 0,
     np_rng |-> [seed |-> <<0, 0>>, draws |-> <<>>],
     a_end |-> 0, tokens_a |-> <<>>, tokens_b |-> <<>>, is_next_random |-> FALSE,
     len_a |-> 0, len_b |-> 0, tokens |-> <<>>, token_types |-> <<>>,
     cand_indexes |-> <<>>, output_tokens |-> <<>>, num_to_predict |-> 0,
     ngram_indexes |-> <<>>, cand_pos |-> 0, n_drawn |-> 0, index_set |-> <<>>,
     commit_pos |-> 0, masked_lms |-> <<>>, covered_indexes |-> {},
     masked_positions |-> <<>>, masked_labels |-> <<>>,
     tokens_np |-> <<>>, token_types_np |-> <<>>, labels_np |-> <<>>,
     padding_mask_np |-> <<>>, loss_mask_np |-> <<>>]

Idle ==
    /\ pc = "idle" /\ err = "none" /\ errline = 0
    /\ idx = 0 /\ sample = <<>> /\ target_seq_length = 0
    /\ np_rng = [seed |-> <<0, 0>>, draws |-> <<>>]
    /\ FreshLocals

Init ==
    /\ \E ds \in Docs, msl \in MaxSeqLengths, bh \in BOOLEAN,
          prob \in MaskLmProbs, mp \in MaxPredsArgs :
          \E t \in TargetSeqLengths(msl) :
              Constructed(ds, t, msl, bh, prob, mp, <<0, 1234>>)
    /\ streams = <<>>
    /\ ncalls = 0
    /\ parked = IdleFrame
    /\ results = <<>>
    /\ Idle

Next ==
    \/ \E i \in 0..0 : GetItem(i)
    \/ EntryChecks
    \/ CreateRandomSentencePair
    \/ SwapAndReturn
    \/ ConcatAllSentences
    \/ TruncateSeqPair
    \/ CreateTokensAndTokenTypes
    \/ MaskBegin
    \/ MaskCandidate
    \/ MaskCommit
    \/ MaskLoopExit
    \/ PadAndConvertToNumpy
    \/ BuildTrainSample

Spec == Init /\ [][Next]_vars

\* the datasets whose calls are followed to their end: max_preds_per_seq 2
\* with every mask_lm_prob, and the derived one with 0 and the default 0.15
InitLive ==
    /\ \E ds \in Docs, msl \in MaxSeqLengths, bh \in BOOLEAN,
          prob \in MaskLmProbs, mp \in MaxPredsArgs :
          \E t \in TargetSeqLengths(msl) :
              /\ mp = <<>> => prob \in {0, 15}
              /\ Constructed(ds, t, msl, bh, prob, mp, <<0, 1234>>)
    /\ streams = <<>>
    /\ ncalls = 0
    /\ parked = IdleFrame
    /\ results = <<>>
    /\ Idle

\* a call is one thread of control: whenever it has a next statement, it runs
SpecLive == InitLive /\ [][Next]_vars /\ WF_vars(Next)

----------------------------------------------------------------------------
(* create_training_sample from the token assembly on (line 105), for any two *)
(* segments truncate_seq_pair can hand over                                  *)

\* the pairs of segments: any ids of the corpus, segment B empty or not
SegmentPairs ==
    {ab \in SeqsUpTo(WordIds, MaxDocTokens) \X SeqsUpTo(WordIds, MaxDocTokens) :
        Len(ab[1]) + Len(ab[2]) <= MaxDocTokens}

InitPair ==
    /\ \E ab \in SegmentPairs, msl \in MaxSeqLengths, prob \in MaskLmProbs,
          mp \in MaxPredsArgs :
          /\ Constructed(<<ab[1], ab[2]>>, msl, msl, FALSE, prob, mp, <<0, 1234>>)
          /\ tokens_a = ab[1]
          /\ tokens_b = ab[2]
          /\ sample = <<ab[1], ab[2]>>
          /\ target_seq_length = msl
    /\ streams = <<>>
    /\ ncalls = 0
    /\ parked = IdleFrame
    /\ results = <<>>
    /\ pc = "assemble" /\ err = "none" /\ errline = 0
    /\ idx = 0
    /\ np_rng = RandomState(SeedOf(seed, 0))
    /\ a_end = 0 /\ is_next_random = FALSE
    /\ len_a = Len(tokens_a) /\ len_b = Len(tokens_b)
    /\ tokens = <<>> /\ token_types = <<>>
    /\ cand_indexes = <<>> /\ output_tokens = <<>> /\ num_to_predict = 0
    /\ ngram_indexes = <<>> /\ cand_pos = 0 /\ n_drawn = 0 /\ index_set = <<>>
    /\ commit_pos = 0 /\ masked_lms = <<>> /\ covered_indexes = {}
    /\ masked_positions = <<>> /\ masked_labels = <<>>
    /\ tokens_np = <<>> /\ token_types_np = <<>> /\ labels_np = <<>>
    /\ padding_mask_np = <<>> /\ loss_mask_np = <<>>

NextPair ==
    \/ CreateTokensAndTokenTypes
    \/ MaskBegin
    \/ MaskCandidate
    \/ MaskCommit
    \/ MaskLoopExit
    \/ PadAndConvertToNumpy
    \/ BuildTrainSample

SpecPair == InitPair /\ [][NextPair]_vars

----------------------------------------------------------------------------
(* The set-up of create_masked_lm_predictions (up to line 238) with the cap  *)
(* derived by __init__, for every max_seq_length, every mask_lm_prob in      *)
(* hundredths and every length the assembled sequence can have               *)

MaxCapSeqLength == 24   \* max_seq_length of the derived-cap runs

\* mask_lm_prob, in hundredths
CapProbs == 0..100

\* segment A is one word of n pieces ("play" and n - 1 times "##ing"), segment
\* B is empty: the sequence has n + 3 tokens and one candidate group
InitCap ==
    /\ \E msl \in 3..MaxCapSeqLength, prob \in CapProbs : \E n \in 0..(msl - 3) :
          LET a == [i \in 1..n |-> IF i = 1 THEN 4 ELSE 5]
          IN  /\ Constructed(<<a>>, msl - 3, msl, FALSE, prob, <<>>, <<0, 1234>>)
              /\ tokens_a = a
              /\ tokens_b = <<>>
              /\ sample = <<a>>
              /\ target_seq_length = msl - 3
    /\ streams = <<>>
    /\ ncalls = 0
    /\ parked = IdleFrame
    /\ results = <<>>
    /\ pc = "assemble" /\ err = "none" /\ errline = 0
    /\ idx = 0
    /\ np_rng = RandomState(SeedOf(seed, 0))
    /\ a_end = 0 /\ is_next_random = FALSE
    /\ len_a = Len(tokens_a) /\ len_b = Len(tokens_b)
    /\ tokens = <<>> /\ token_types = <<>>
    /\ cand_indexes = <<>> /\ output_tokens = <<>> /\ num_to_predict = 0
    /\ ngram_indexes = <<>> /\ cand_pos = 0 /\ n_drawn = 0 /\ index_set = <<>>
    /\ commit_pos = 0 /\ masked_lms = <<>> /\ covered_indexes = {}
    /\ masked_positions = <<>> /\ masked_labels = <<>>
    /\ tokens_np = <<>> /\ token_types_np = <<>> /\ labels_np = <<>>
    /\ padding_mask_np = <<>> /\ loss_mask_np = <<>>

NextCap ==
    \/ CreateTokensAndTokenTypes
    \/ MaskBegin

SpecCap == InitCap /\ [][NextCap]_vars

----------------------------------------------------------------------------
(* Repeated __getitem__ calls on one dataset *)

MaxCalls == 3           \* __getitem__ calls on the dataset

\* the documents of the repeated-call runs: at most two tokens
SmallDocs == {d \in Docs : Len(Flatten(d)) <= 2}

\* what a call ended with: the exception and everything it computed for the
\* sample
Outcome ==
    [err |-> err, errline |-> errline,
     text |-> tokens_np, types |-> token_types_np, labels |-> labels_np,
     is_random |-> is_next_random, loss_mask |-> loss_mask_np,
     padding_mask |-> padding_mask_np]

\* the call is over and the caller goes on; the first outcome of each sample
\* ordinal is kept
CallEnds ==
    /\ pc = "done"
    /\ ncalls < MaxCalls - 1
    /\ ncalls' = ncalls + 1
    /\ results' = (IF idx \in DOMAIN results THEN results ELSE results @@ (idx :> Outcome))
    /\ pc' = "idle"
    /\ err' = "none"
    /\ errline' = 0
    /\ UNCHANGED <<datasetVars, rngVars, entryVars, splitVars, truncVars, asmVars,
                   planVars, padVars, parked>>

\* __init__ with two entries in the sample index, both the whole corpus
InitDet ==
    /\ \E ds \in SmallDocs, bh \in BOOLEAN, prob \in MaskLmProbs, sd \in Seeds :
          /\ seed = sd
          /\ mask_lm_prob = prob
          /\ max_seq_length = MaxSeqLength
          /\ binary_head = bh
          /\ max_preds_per_seq = InitMaxPreds(<<>>, prob, MaxSeqLength)
          /\ indexed_dataset = ds
          /\ samples_mapping = << <<0, Len(ds), MaxSeqLength>>, <<0, Len(ds), 1>> >>
    /\ streams = <<>>
    /\ ncalls = 0
    /\ parked = IdleFrame
    /\ results = <<>>
    /\ Idle

NextDet ==
    \/ \E i \in 0..1 : GetItem(i)
    \/ EntryChecks
    \/ CreateRandomSentencePair
    \/ SwapAndReturn
    \/ ConcatAllSentences
    \/ TruncateSeqPair
    \/ CreateTokensAndTokenTypes
    \/ MaskBegin
    \/ MaskCandidate
    \/ MaskCommit
    \/ MaskLoopExit
    \/ PadAndConvertToNumpy
    \/ BuildTrainSample
    \/ CallEnds

SpecDet == InitDet /\ [][NextDet]_vars

----------------------------------------------------------------------------
(* Two __getitem__ calls in progress on one dataset (two threads or workers): *)
(* the locals of a call, np_rng among them, are the call's own; the dataset   *)
(* object is the one both read.  The call that runs is in the variables, the  *)
(* other one is parked; the scheduler may switch them between any two steps.  *)

\* the frame of the running call
Frame ==
    [pc |-> pc, err |-> err, errline |-> errline,
     idx |-> idx, sample |-> sample, target_seq_length |-> target_seq_length,
     np_rng |-> np_rng,
     a_end |-> a_end, tokens_a |-> tokens_a, tokens_b |-> tokens_b,
     is_next_random |-> is_next_random,
     len_a |-> len_a, len_b |-> len_b, tokens |-> tokens, token_types |-> token_types,
     cand_indexes |-> cand_indexes, output_tokens |-> output_tokens,
     num_to_predict |-> num_to_predict, ngram_indexes |-> ngram_indexes,
     cand_pos |-> cand_pos, n_drawn |-> n_drawn, index_set |-> index_set,
     commit_pos |-> commit_pos, masked_lms |-> masked_lms,
     covered_indexes |-> covered_indexes,
     masked_positions |-> masked_positions, masked_labels |-> masked_labels,
     tokens_np |-> tokens_np, token_types_np |-> token_types_np,
     labels_np |-> labels_np, padding_mask_np |-> padding_mask_np,
     loss_mask_np |-> loss_mask_np]

\* what the call of frame f ended with
OutcomeOf(f) ==
    [err |-> f.err, errline |-> f.errline,
     text |-> f.tokens_np, types |-> f.token_types_np, labels |-> f.labels_np,
     is_random |-> f.is_next_random, loss_mask |-> f.loss_mask_np,
     padding_mask |-> f.padding_mask_np]

\* the locals of the parked call become the running ones, np_rng left aside
ResumeLocals ==
    /\ pc' = parked.pc /\ err' = parked.err /\ errline' = parked.errline
    /\ idx' = parked.idx /\ sample' = parked.sample
    /\ target_seq_length' = parked.target_seq_length
    /\ a_end' = parked.a_end /\ tokens_a' = parked.tokens_a
    /\ tokens_b' = parked.tokens_b /\ is_next_random' = parked.is_next_random
    /\ len_a' = parked.len_a /\ len_b' = parked.len_b
    /\ tokens' = parked.tokens /\ token_types' = parked.token_types
    /\ cand_indexes' = parked.cand_indexes /\ output_tokens' = parked.output_tokens
    /\ num_to_predict' = parked.num_to_predict
    /\ ngram_indexes' = parked.ngram_indexes
    /\ cand_pos' = parked.cand_pos /\ n_drawn' = parked.n_drawn
    /\ index_set' = parked.index_set /\ commit_pos' = parked.commit_pos
    /\ masked_lms' = parked.masked_lms /\ covered_indexes' = parked.covered_indexes
    /\ masked_positions' = parked.masked_positions
    /\ masked_labels' = parked.masked_labels
    /\ tokens_np' = parked.tokens_np /\ token_types_np' = parked.token_types_np
    /\ labels_np' = parked.labels_np /\ padding_mask_np' = parked.padding_mask_np
    /\ loss_mask_np' = parked.loss_mask_np

\* a switch between calls that draw on one RandomState of the dataset
SwitchSharingRng ==
    /\ parked' = Frame
    /\ ResumeLocals
    /\ np_rng' = np_rng
    /\ UNCHANGED <<datasetVars, streams, ncalls, results>>

\* the scheduler lets the other call run: each call keeps its own locals and
\* its own RandomState
Switch ==
    /\ parked' = Frame
    /\ ResumeLocals
    /\ np_rng' = parked.np_rng
    /\ UNCHANGED <<datasetVars, streams, ncalls, results>>

\* __init__ as in the repeated-call runs, the default seed
InitPar ==
    /\ \E ds \in SmallDocs, bh \in BOOLEAN, prob \in MaskLmProbs :
          /\ seed = <<0, 1234>>
          /\ mask_lm_prob = prob
          /\ max_seq_length = MaxSeqLength
          /\ binary_head = bh
          /\ max_preds_per_seq = InitMaxPreds(<<>>, prob, MaxSeqLength)
          /\ indexed_dataset = ds
          /\ samples_mapping = << <<0, Len(ds), MaxSeqLength>>, <<0, Len(ds), 1>> >>
    /\ streams = <<>>
    /\ ncalls = 0
    /\ parked = IdleFrame
    /\ results = <<>>
    /\ Idle

NextPar ==
    \/ \E i \in 0..1 : GetItem(i)
    \/ EntryChecks
    \/ CreateRandomSentencePair
    \/ SwapAndReturn
    \/ ConcatAllSentences
    \/ TruncateSeqPair
    \/ CreateTokensAndTokenTypes
    \/ MaskBegin
    \/ MaskCandidate
    \/ MaskCommit
    \/ MaskLoopExit
    \/ PadAndConvertToNumpy
    \/ BuildTrainSample
    \/ CallEnds
    \/ Switch

SpecPar == InitPar /\ [][NextPar]_vars

----------------------------------------------------------------------------
(* Where a call stands *)

\* create_random_sentence_pair has been entered and has run to its end
SplitterRan == binary_head /\ pc = "done" /\ errline = 146

\* truncate_seq_pair was called
TruncateCalled ==
    \/ pc \in {"assemble", "mask", "mask_loop", "mask_commit", "pad", "build"}
    \/ pc = "done" /\ errline \notin {88, 89, 146}

\* create_masked_lm_predictions has returned its three lists
PlannerReturned ==
    \/ pc \in {"pad", "build"}
    \/ pc = "done" /\ errline \in {301, 302, 303, 317, 118}

\* pad_and_convert_to_numpy has returned the five arrays of the sample
PadReturned ==
    \/ pc = "build"
    \/ pc = "done" /\ errline = 118

\* create_training_sample has returned a sample
SampleReturned == pc = "done" /\ err = "none"

\* the assembled sequence as it was before masking
AssembledTokens == TokensOf(tokens_a, tokens_b)

\* the positions the sample's loss_mask marks
LossPositions == {i \in 0..(Len(loss_mask_np) - 1) : loss_mask_np[i + 1] = 1}

\* a position whose token is a word piece that continues a word
IsContinuation(toks, p) ==
    /\ p + 1 \in DOMAIN toks
    /\ toks[p + 1] \notin {cls_id, sep_id}
    /\ StartsWithHashes(vocab_id_to_token_dict[toks[p + 1]])

----------------------------------------------------------------------------
(* C1 .. C10 *)

C2_LossMaskIffLabel ==
    PadReturned =>
        /\ Len(labels_np) = max_seq_length
        /\ Len(loss_mask_np) = max_seq_length
        /\ \A i \in 1..max_seq_length :
              /\ loss_mask_np[i] \in {0, 1}
              /\ (loss_mask_np[i] = 1) <=> (labels_np[i] # -1)
              /\ padding_mask_np[i] = 0 => (loss_mask_np[i] = 0 /\ labels_np[i] = -1)

\* C2 happens: a padded sample with a masked, an unmasked and a padding position
C2_Witness ==
    /\ PadReturned
    /\ \E i, j, k \in 1..max_seq_length :
          /\ loss_mask_np[i] = 1
          /\ loss_mask_np[j] = 0 /\ padding_mask_np[j] = 1
          /\ padding_mask_np[k] = 0

\* C3: the number of masked positions is at most
\* min(max_preds_per_seq, max(1, round(real_length * mask_lm_prob))), with
\* real_length the assembled length ([CLS] and both [SEP] included), at every
\* point of the masking loop, in the lists the planner returns and in the
\* loss_mask of the sample.
C3_MaskedCountWithinBudget ==
    LET real_length == Len(AssembledTokens)
        bound == Min(max_preds_per_seq,
                     Max(1, RoundHalfEven(real_length * mask_lm_prob, 100)))
    IN  /\ (pc \in {"mask_loop", "mask_commit"} \/ (pc = "done" /\ errline = 187)) =>
               /\ num_to_predict = bound
               /\ Len(masked_lms) <= bound
        /\ PlannerReturned =>
               /\ num_to_predict = bound
               /\ Len(masked_positions) <= bound
        /\ PadReturned => Cardinality(LossPositions) <= bound

\* C3 happens: the budget is 2, the sample has exactly 2 masked positions and
\* there were more maskable tokens than that
C3_Witness ==
    /\ PadReturned
    /\ num_to_predict = 2
    /\ Cardinality(LossPositions) = 2
    /\ Len(Flatten(cand_indexes)) > 2

\* C4: the masked positions the planner returns are strictly ascending (so
\* pairwise distinct), each lies in [0, real_token_count), and the label at
\* place k is the one of the position at place k, whatever order the shuffle
\* considered the candidates in.
C4_PositionsSortedDistinctInRange ==
    PlannerReturned =>
        /\ Len(masked_positions) = Len(masked_labels)
        /\ \A k \in DOMAIN masked_positions :
              /\ masked_positions[k] \in 0..(Len(tokens) - 1)
              /\ masked_labels[k] = AssembledTokens[masked_positions[k] + 1]
        /\ \A k \in 1..(Len(masked_positions) - 1) :
              masked_positions[k] < masked_positions[k + 1]

\* C4 happens: two positions are returned, and the candidate the shuffle put
\* first is the later one of them, holding another id than the earlier one
C4_Witness ==
    /\ PlannerReturned
    /\ Len(masked_positions) = 2
    /\ ngram_indexes[1][1][1][1] = masked_positions[2]
    /\ masked_labels[1] # masked_labels[2]

\* C5: a construction of a sample ordinal that was constructed before on the
\* same dataset ends as the first one did, in the exception and in every array
\* it computed; its RandomState is created from (seed + idx) mod 2 ** 32, a
\* seed in [0, 2 ** 32), with no draw made on it and no local bound when
\* create_training_sample is entered.
C5_SameOrdinalSameOutcome ==
    /\ (pc = "done" /\ idx \in DOMAIN results) => Outcome = results[idx]
    /\ pc # "idle" =>
          /\ np_rng.seed = SeedOf(seed, idx)
          /\ np_rng.seed[1] \in 0..(Limb - 1)
          /\ np_rng.seed[2] \in 0..(Limb - 1)
    /\ pc = "checks" => (np_rng.draws = <<>> /\ FreshLocals)

\* C5 happens: the third call constructs the ordinal of the first one again,
\* after a call on the other ordinal, and gets as far as the padded arrays
\* with a masked position
C5_Witness ==
    /\ pc = "done"
    /\ ncalls = 2
    /\ idx \in DOMAIN results
    /\ DOMAIN results = {0, 1}
    /\ errline = 118
    /\ LossPositions # {}

\* C6: in every masking plan the planner returns, if position p is masked and
\* position p + 1 holds a continuation piece, p + 1 is masked too; and every
\* candidate group is entirely masked or entirely unmasked.
C6_WholeWordsMasked ==
    PlannerReturned =>
        LET masked == Range(masked_positions)
        IN  /\ \A p \in masked : IsContinuation(AssembledTokens, p + 1) => p + 1 \in masked
            /\ \A g \in DOMAIN cand_indexes :
                  \/ Range(cand_indexes[g]) \subseteq masked
                  \/ Range(cand_indexes[g]) \cap masked = {}

\* C6 happens: a word of two pieces is masked and another word is not
C6_Witness ==
    /\ PlannerReturned
    /\ \E g, h \in DOMAIN cand_indexes :
          /\ Len(cand_indexes[g]) = 2
          /\ Range(cand_indexes[g]) \subseteq Range(masked_positions)
          /\ Range(cand_indexes[h]) \cap Range(masked_positions) = {}

\* C7: every position accepted for masking has a recorded label, and the label
\* is the id the assembled sequence held there before masking, whichever
\* replacement mask_token applied.
C7_LabelIsOriginalId ==
    (pc \in {"mask_loop", "pad", "build", "done"} /\ output_tokens # <<>>) =>
        \A p \in covered_indexes :
            \E k \in DOMAIN masked_lms :
                /\ masked_lms[k].index = p
                /\ masked_lms[k].label = AssembledTokens[p + 1]

\* C8: truncate_seq_pair returns segments with len(A) + len(B) <= max_num_tokens
\* after removing exactly max(0, len(A) + len(B) - max_num_tokens) tokens.
C8_TruncateRestoresBudget ==
    TruncateCalled =>
        LET before == Len(Flatten(sample))
            after == Len(tokens_a) + Len(tokens_b)
        IN  /\ errline # 162
            /\ after <= target_seq_length
            /\ before - after = Max(0, before - target_seq_length)

\* C9: in binary-head mode the splitter returns is_random_next = TRUE exactly
\* when the swap draw is below 0.5, then with A the pre-swap B and B the
\* pre-swap A, and otherwise FALSE with the natural order.
C9_SwapFlagReturned ==
    SplitterRan =>
        LET swap_draw == np_rng.draws[Len(np_rng.draws)][1]
            pre_a == Flatten(Slice(sample, 0, a_end))
            pre_b == Flatten(Slice(sample, a_end, Len(sample)))
        IN  /\ err = "none"
            /\ is_next_random = (swap_draw < 50)
            /\ is_next_random => (tokens_a = pre_b /\ tokens_b = pre_a)
            /\ ~is_next_random => (tokens_a = pre_a /\ tokens_b = pre_b)

\* C10: in binary-head mode with n >= 2 sentences the split point a_end lies in
\* [1, n - 1] (1 when n = 2), segment A before the swap is the sentences
\* [0, a_end) in order and segment B the sentences [a_end, n) in order: each
\* takes at least one sentence and A followed by B is the whole document.
C10_SplitPointInRange ==
    pc = "swap" =>
        LET n == Len(sample)
        IN  /\ n >= 2
            /\ a_end \in 1..(n - 1)
            /\ n = 2 => a_end = 1
            /\ tokens_a = Flatten(SubSeq(sample, 1, a_end))
            /\ tokens_b = Flatten(SubSeq(sample, a_end + 1, n))
            /\ tokens_a \o tokens_b = Flatten(sample)
            /\ Len(tokens_a) >= 1 /\ Len(tokens_b) >= 1

\* C10 happens: three sentences, split after the second
C10_Witness ==
    /\ pc = "swap"
    /\ Len(sample) = 3
    /\ a_end = 2

----------------------------------------------------------------------------
(* C11 .. C20 *)

\* the place in the joined list where sentence j of the document starts
SentenceOffset(doc, j) == Len(Flatten(SubSeq(doc, 1, j - 1)))

\* C11: with binary-head mode disabled, when create_training_sample reaches
\* the truncation, token k of sentence j of the document stands in segment A
\* after all tokens of the sentences before j and the first k - 1 of j, A
\* holds nothing else, segment B is empty, is_next_random is false, no split
\* point was drawn and no draw at all was made on np_rng, for any document.
C11_NoHeadAllInSegmentA ==
    (~binary_head /\ pc = "truncate") =>
        /\ Len(tokens_a) = SentenceOffset(sample, Len(sample) + 1)
        /\ \A j \in DOMAIN sample : \A k \in DOMAIN sample[j] :
              tokens_a[SentenceOffset(sample, j) + k] = sample[j][k]
        /\ tokens_b = <<>>
        /\ is_next_random = FALSE
        /\ a_end = 0
        /\ np_rng.draws = <<>>

\* C11 happens: a document of three sentences, not all alike, is joined
C11_Witness ==
    /\ ~binary_head
    /\ pc = "truncate"
    /\ Len(sample) = 3
    /\ sample[1] # sample[3]

\* C12: in binary-head mode a call on a document of fewer than 2 sentences
\* ends in the AssertionError of line 88: it never gets to the splitter, no
\* draw is made, no local of the call is bound and no sample is returned.
\* With binary-head mode disabled a document of fewer than 2 sentences passes
\* the entry of create_training_sample whenever its target length does.
C12_TooFewSentencesFails ==
    (Len(sample) < 2 /\ pc \notin {"idle", "checks"}) =>
        IF binary_head
        THEN /\ pc = "done"
             /\ err = "AssertionError"
             /\ errline = 88
             /\ np_rng.draws = <<>>
             /\ FreshLocals
        ELSE target_seq_length <= max_seq_length => errline \notin {88, 89, 128}

\* C12 happens: a call in binary-head mode on a document of one sentence is
\* over
C12_Witness ==
    /\ binary_head
    /\ Len(sample) = 1
    /\ pc = "done"

\* the tokens were assembled and are more than max_seq_length
Overflows == tokens # <<>> /\ Len(tokens_a) + Len(tokens_b) + 3 > max_seq_length

\* C13: once the assembled sequence has len(A) + len(B) + 3 > max_seq_length,
\* the call never gets the padded arrays and can only end in an error; when
\* pad_and_convert_to_numpy is entered with more than max_seq_length tokens it
\* raises the AssertionError of line 301 and builds no array; and the arrays
\* it does return hold all len(A) + len(B) + 3 tokens, at most max_seq_length
\* of them, as their first entries.
C13_OverflowFails ==
    /\ [](Overflows => (~PadReturned /\ (pc = "done" => err # "none")))
    /\ [](PadReturned =>
            /\ Len(tokens) = Len(tokens_a) + Len(tokens_b) + 3
            /\ Len(tokens) <= max_seq_length
            /\ SubSeq(tokens_np, 1, Len(tokens)) = tokens
            /\ \A i \in 1..Len(tokens) : padding_mask_np[i] = 1)
    /\ [][(pc = "pad" /\ Len(tokens) > max_seq_length) =>
            (pc' = "done" /\ err' = "AssertionError" /\ errline' = 301
             /\ UNCHANGED padVars)]_vars

\* C13 happens: a sequence that was masked is found too long for the arrays
C13_Witness ==
    /\ pc = "done"
    /\ errline = 301
    /\ Overflows
    /\ masked_positions # <<>>

\* C14: what create_tokens_and_token_types returns for segments A and B, empty
\* or not: len(A) + len(B) + 3 tokens, cls_id at position 0, A at positions
\* 1..len(A), sep_id at len(A) + 1, B after it and sep_id last; and as many
\* token types, 0 at positions 0..len(A) + 1 and 1 at the len(B) + 1 others.
C14_AssemblyLayout ==
    pc = "mask" =>
        LET la == Len(tokens_a)
            lb == Len(tokens_b)
        IN  /\ Len(tokens) = la + lb + 3
            /\ Len(token_types) = la + lb + 3
            /\ tokens[1] = cls_id
            /\ \A i \in 1..la : tokens[1 + i] = tokens_a[i]
            /\ tokens[la + 2] = sep_id
            /\ \A i \in 1..lb : tokens[la + 2 + i] = tokens_b[i]
            /\ tokens[la + lb + 3] = sep_id
            /\ \A p \in 0..(la + lb + 2) :
                  token_types[p + 1] = (IF p <= la + 1 THEN 0 ELSE 1)
            /\ Cardinality({p \in 0..(la + lb + 2) : token_types[p + 1] = 1}) = lb + 1

\* C14 happens: two tokens in A and one in B are assembled
C14_Witness ==
    /\ pc = "mask"
    /\ Len(tokens_a) = 2
    /\ Len(tokens_b) = 1

\* C15: in the arrays pad_and_convert_to_numpy returns for k tokens, all of
\* length max_seq_length: padding_mask is 1 at every i < k and 0 at every
\* i >= k, tokens and token_types are pad_id at every i >= k and the k tokens
\* and types before, and no masked position (loss_mask 1, label other than
\* -1, or an entry of masked_positions) is at i >= k.
C15_RealPrefixThenPadding ==
    PadReturned =>
        LET k == Len(tokens)
        IN  /\ k = Len(tokens_a) + Len(tokens_b) + 3
            /\ Len(tokens_np) = max_seq_length
            /\ Len(token_types_np) = max_seq_length
            /\ Len(padding_mask_np) = max_seq_length
            /\ \A i \in 0..(max_seq_length - 1) :
                  IF i < k
                  THEN /\ padding_mask_np[i + 1] = 1
                       /\ tokens_np[i + 1] = tokens[i + 1]
                       /\ token_types_np[i + 1] = token_types[i + 1]
                  ELSE /\ padding_mask_np[i + 1] = 0
                       /\ tokens_np[i + 1] = pad_id
                       /\ token_types_np[i + 1] = pad_id
                       /\ loss_mask_np[i + 1] = 0
                       /\ labels_np[i + 1] = -1
            /\ \A j \in DOMAIN masked_positions : masked_positions[j] < k

\* C15 happens: arrays with padding after two segments, the last token of B
\* masked
C15_Witness ==
    /\ PadReturned
    /\ Len(tokens) < max_seq_length
    /\ Len(tokens_b) >= 1
    /\ Len(tokens) - 2 \in Range(masked_positions)

\* C16: with mask_lm_prob == 0 a call whose tokens were assembled ends with
\* the planner having returned the tokens unchanged and two empty lists, and
\* the arrays built from them have loss_mask 0 and label -1 everywhere.
C16_ZeroProbReturnsUnmasked ==
    (mask_lm_prob = 0 /\ tokens # <<>> /\ pc = "done") =>
        /\ PlannerReturned
        /\ tokens = AssembledTokens
        /\ masked_positions = <<>>
        /\ masked_labels = <<>>
        /\ PadReturned =>
               \A i \in 1..max_seq_length : loss_mask_np[i] = 0 /\ labels_np[i] = -1

\* the two segments as they were handed to truncate_seq_pair
SegmentsBeforeTruncation ==
    LET first == Flatten(Slice(sample, 0, a_end))
        rest == Flatten(Slice(sample, a_end, Len(sample)))
    IN  IF ~binary_head THEN <<Flatten(sample), <<>> >>
        ELSE IF is_next_random THEN <<rest, first>>
        ELSE <<first, rest>>

\* s is l[lo:hi] for some lo and hi
IsContiguousSliceOf(s, l) ==
    \E lo \in 0..Len(l) : s = Slice(l, lo, lo + Len(s))

\* C19: once truncate_seq_pair was called, every removal it counted (len_a
\* and len_b) has removed one token of that segment, at its front or its
\* back, no removal ended in an error, a removal was counted against A only
\* when len(A) > len(B) before it and against B otherwise, never against an
\* empty segment, and each segment is a contiguous slice of what it was.
C19_TruncationStepTrimsLongerSide ==
    TruncateCalled =>
        LET before == SegmentsBeforeTruncation
        IN  /\ errline # 162
            /\ Len(tokens_a) = len_a
            /\ Len(tokens_b) = len_b
            /\ len_a >= 0 /\ len_b >= 0
            /\ IsContiguousSliceOf(tokens_a, before[1])
            /\ IsContiguousSliceOf(tokens_b, before[2])

\* the candidate groups of the call have been built
GroupsBuilt ==
    \/ pc \in {"mask_loop", "mask_commit", "pad", "build"}
    \/ pc = "done" /\ errline \in {187, 301, 302, 303, 317, 118}

\* C20: the candidate groups hold every position of the assembled sequence
\* whose token is neither cls_id nor sep_id exactly once and no other
\* position; each group is a run of consecutive positions, its first token a
\* starting piece and its other tokens continuation pieces; so a position
\* opens a group iff its piece is a starting piece.
C20_GroupsAreWords ==
    GroupsBuilt =>
        LET toks == AssembledTokens
            all == Flatten(cand_indexes)
            maskable == {p \in 0..(Len(toks) - 1) : toks[p + 1] \notin {cls_id, sep_id}}
        IN  /\ Range(all) = maskable
            /\ Len(all) = Cardinality(maskable)
            /\ \A g \in DOMAIN cand_indexes :
                  LET group == cand_indexes[g]
                  IN  /\ group # <<>>
                      /\ is_start_piece(vocab_id_to_token_dict[toks[group[1] + 1]])
                      /\ \A i \in 2..Len(group) :
                            /\ group[i] = group[i - 1] + 1
                            /\ IsContinuation(toks, group[i])

\* C18: every call of create_training_sample that was entered ends, in a
\* sample or in an exception.  In the candidate loop cand_pos never passes
\* the end of the shuffled list, every pass moves on to the next entry (at
\* once, or after the commit loop took the entries of one non-empty n-gram in
\* turn), and a pass of the truncation loop counts the total length down by
\* exactly 1 and is the last one.
C18_EveryCallEnds ==
    /\ (pc = "checks") ~> (pc = "done")
    /\ [](cand_pos <= Len(ngram_indexes) /\ commit_pos <= Len(index_set))
    /\ [][/\ (pc = "mask_loop" /\ pc' = "mask_loop") => cand_pos' = cand_pos + 1
          /\ (pc = "mask_loop" /\ pc' = "mask_commit") =>
                (cand_pos' = cand_pos /\ commit_pos' = 0 /\ index_set' # <<>>)
          /\ (pc = "mask_commit" /\ pc' = "mask_commit") =>
                (cand_pos' = cand_pos /\ commit_pos' = commit_pos + 1
                 /\ commit_pos' < Len(index_set) /\ index_set' = index_set)
          /\ (pc = "mask_commit" /\ pc' = "mask_loop") =>
                (cand_pos' = cand_pos + 1 /\ commit_pos' = Len(index_set))
          /\ pc = "truncate" =>
                /\ pc' # "truncate"
                /\ len_a' + len_b' =
                       (IF Len(tokens_a) + Len(tokens_b) <= target_seq_length
                        THEN Len(tokens_a) + Len(tokens_b)
                        ELSE Len(tokens_a) + Len(tokens_b) - 1)]_vars

\* C18 happens: a call is over whose candidate loop went through both entries
\* of the shuffled list, skipping the first (a word too long for the budget)
\* and masking the second
C18_Witness ==
    /\ pc = "done"
    /\ Len(ngram_indexes) = 2
    /\ cand_pos = 2
    /\ num_to_predict = 1
    /\ Len(masked_lms) = 1

\* C17: with two calls in progress on one dataset, their steps interleaved in
\* any order, a call that is over ended as the first finished call on its
\* ordinal did and as the other call did if that one is over on the same
\* ordinal (a call with no other in progress is one of the interleavings);
\* each call draws on a RandomState of its own, seeded with (seed + idx) mod
\* 2 ** 32; and no step of a call changes the corpus, the sample index or the
\* configuration of the dataset.
C17_InterleavedCallsAgree ==
    /\ []((pc = "done" /\ idx \in DOMAIN results) => Outcome = results[idx])
    /\ []((pc = "done" /\ parked.pc = "done" /\ idx = parked.idx) =>
              Outcome = OutcomeOf(parked))
    /\ [](pc # "idle" => np_rng.seed = SeedOf(seed, idx))
    /\ [](parked.pc # "idle" => parked.np_rng.seed = SeedOf(seed, parked.idx))
    /\ [][UNCHANGED datasetVars]_vars

\* C17 happens: after a call on an ordinal has finished, two calls on that
\* ordinal are both half way through masking a word of two pieces
C17_Witness ==
    /\ pc = "mask_commit" /\ masked_lms # <<>>
    /\ parked.pc = "mask_commit" /\ parked.masked_lms # <<>>
    /\ idx = parked.idx
    /\ idx \in DOMAIN results

----------------------------------------------------------------------------
(* C21 .. C27 *)

\* a step of the candidate loop that examined the entry at cand_pos
ExaminesCandidate ==
    /\ pc = "mask_loop"
    /\ pc' \in {"mask_loop", "mask_commit"}

\* C21: when the candidate loop examines an entry with n drawn, the n-gram
\* it ends on has a length m <= n, all the lengths m + 1 .. n would push the
\* committed count above num_to_predict, and m fits or is 1; if the n-gram
\* of length m does not fit, the entry is passed over with no position
\* covered, masked or recorded, and the loop is at the next entry.
C21_RetryOnlyShorter ==
    [][ExaminesCandidate =>
          LET cand_index_set == ngram_indexes[cand_pos + 1]
              have == Len(masked_lms)
              fits(k) == have + Len(Flatten(cand_index_set[k])) <= num_to_predict
          IN  /\ n_drawn' \in 1..max_ngrams
              /\ \E m \in 1..n_drawn' :
                    /\ index_set' = Flatten(cand_index_set[m])
                    /\ \A k \in (m + 1)..n_drawn' : ~fits(k)
                    /\ fits(m) \/ m = 1
              /\ ~fits(1) =>
                    /\ pc' = "mask_loop"
                    /\ cand_pos' = cand_pos + 1
                    /\ UNCHANGED <<masked_lms, covered_indexes, output_tokens>>]_vars

\* C21 happens: n = 3 was drawn for an entry whose n-grams of 3 and 2 groups
\* do not fit, and the 1-gram is about to be committed
C21_Witness ==
    /\ pc = "mask_commit"
    /\ commit_pos = 0
    /\ n_drawn = 3
    /\ index_set = Flatten(ngram_indexes[cand_pos + 1][1])
    /\ Len(Flatten(ngram_indexes[cand_pos + 1][2])) > Len(index_set)
    /\ Len(Flatten(ngram_indexes[cand_pos + 1][3])) >
          Len(Flatten(ngram_indexes[cand_pos + 1][2]))

\* the positions recorded in masked_lms
RecordedIndexes == {masked_lms[k].index : k \in DOMAIN masked_lms}

\* a pass of the commit loop
CommitsIndex == pc = "mask_commit"

\* C22: an entry whose resolved n-gram holds a covered position is passed
\* over with nothing covered, replaced or recorded; a position is replaced
\* and recorded only while it is not covered, so no position is recorded
\* twice; and the commit of an accepted n-gram returns to the candidate loop
\* only after all its positions are recorded.
C22_OverlapSkipsWhole ==
    /\ [](\A j, k \in DOMAIN masked_lms : masked_lms[j].index = masked_lms[k].index => j = k)
    /\ [](pc = "mask_commit" =>
            /\ \A k \in 1..commit_pos : index_set[k] \in RecordedIndexes
            /\ \A k \in (commit_pos + 1)..Len(index_set) :
                  index_set[k] \notin covered_indexes)
    /\ [][/\ ExaminesCandidate /\ IsAnyIndexCovered(index_set', covered_indexes) =>
              /\ pc' = "mask_loop"
              /\ cand_pos' = cand_pos + 1
              /\ UNCHANGED <<masked_lms, covered_indexes, output_tokens>>
          /\ CommitsIndex =>
              LET index == index_set[commit_pos + 1]
              IN  /\ index \notin covered_indexes
                  /\ \A i \in DOMAIN output_tokens :
                        i # index + 1 => output_tokens'[i] = output_tokens[i]
                  /\ pc' = "mask_loop" =>
                        /\ commit_pos' = Len(index_set)
                        /\ Range(index_set) \subseteq RecordedIndexes'
                        /\ Len(masked_lms') <= num_to_predict
                  /\ pc' = "done" => errline' = 187]_vars

\* C22 happens: the entry just examined resolved to an n-gram that fits in
\* the budget, holds a covered and an uncovered position, and was passed over
C22_Witness ==
    /\ pc = "mask_loop"
    /\ n_drawn > 0
    /\ cand_pos > 0
    /\ ~OverBudget(Len(masked_lms), index_set, num_to_predict)
    /\ IsAnyIndexCovered(index_set, covered_indexes)
    /\ ~IsEveryIndexCovered(index_set, covered_indexes)
    /\ covered_indexes = RecordedIndexes

\* the candidate loop is at its head with the budget met
BudgetMet == pc = "mask_loop" /\ Len(masked_lms) >= num_to_predict

\* the candidate loop is at its head with no entry left
Exhausted == pc = "mask_loop" /\ cand_pos >= Len(ngram_indexes)

PlannerRunning ==
    \/ pc \in {"mask_loop", "mask_commit"}
    \/ pc = "done" /\ errline = 187

\* the group index (from 1) an entry of ngram_indexes was built for: its
\* 1-gram is that group alone
GroupIndexOf(cand_index_set) ==
    CHOOSE i \in 0..Len(cand_indexes) :
        \/ i \in DOMAIN cand_indexes /\ cand_index_set[1] = <<cand_indexes[i]>>
        \/ i = 0 /\ \A g \in DOMAIN cand_indexes : cand_index_set[1] # <<cand_indexes[g]>>

\* the positions of the groups i .. min(i + n - 1, number of groups)
GroupsFrom(i, n) ==
    UNION {Range(cand_indexes[g]) : g \in i..Min(i + n - 1, Len(cand_indexes))}

\* ps lists the positions of S in ascending order, each once
ListsAscending(ps, S) ==
    /\ Range(ps) = S
    /\ \A j, k \in DOMAIN ps : j < k => ps[j] < ps[k]

\* the set-up of the planner has just ended: no entry was examined yet
SetUpDone == pc = "mask_loop" /\ cand_pos = 0

\* C24: the shuffled list holds one entry per candidate group, and for n in
\* 1 .. max_ngrams the n-gram of the entry of group i is, flattened, exactly
\* the positions of the groups i .. min(i + n - 1, number of groups) in
\* ascending order: it holds group i, stops at the last group, and holds no
\* position of a cls_id or sep_id; the candidate loop changes neither the
\* groups nor the list, and the n-gram it commits is one of those of the
\* entry it examines.
C24_NgramIsConsecutiveGroups ==
    /\ [](SetUpDone =>
            /\ Len(ngram_indexes) = Len(cand_indexes)
            /\ \A i \in DOMAIN cand_indexes :
                  \E k \in DOMAIN ngram_indexes : GroupIndexOf(ngram_indexes[k]) = i
            /\ \A k \in DOMAIN ngram_indexes :
                  LET cand_index_set == ngram_indexes[k]
                      i == GroupIndexOf(cand_index_set)
                  IN  /\ i >= 1
                      /\ Len(cand_index_set) = max_ngrams
                      /\ \A n \in 1..max_ngrams :
                            LET ngram == Flatten(cand_index_set[n])
                            IN  /\ ListsAscending(ngram, GroupsFrom(i, n))
                                /\ Range(cand_indexes[i]) \subseteq Range(ngram)
                                /\ \A p \in Range(ngram) :
                                      AssembledTokens[p + 1] \notin {cls_id, sep_id})
    /\ [](pc = "mask_commit" =>
            \E n \in 1..n_drawn :
                ListsAscending(index_set,
                               GroupsFrom(GroupIndexOf(ngram_indexes[cand_pos + 1]), n)))
    /\ [][PlannerRunning => UNCHANGED <<cand_indexes, ngram_indexes, tokens_a, tokens_b>>]_vars

\* C24 happens: n = 3 was drawn for the entry of the group before the last
\* one, and the n-gram being committed is the two groups that are left
C24_Witness ==
    /\ pc = "mask_commit"
    /\ commit_pos = 0
    /\ n_drawn = 3
    /\ Len(cand_indexes) >= 3
    /\ GroupIndexOf(ngram_indexes[cand_pos + 1]) = Len(cand_indexes) - 1
    /\ Len(ngram_indexes[cand_pos + 1][3]) = 2
    /\ index_set = Flatten(ngram_indexes[cand_pos + 1][3])

\* the lists a and b hold the same ids outside the positions of S
SameOutside(a, b, S) ==
    /\ Len(a) = Len(b)
    /\ \A p \in 0..(Len(a) - 1) : p \notin S => a[p + 1] = b[p + 1]

\* C25: while the planner runs, the list it was given still is the assembled
\* sequence and its working copy differs from it at covered positions only;
\* the list it returns equals the assembled sequence at every position
\* outside the returned masked positions, and no returned position holds
\* cls_id or sep_id in the assembled sequence (so none is position 0, the
\* position after segment A or the last position).
C25_OnlyMaskedPositionsChange ==
    /\ PlannerRunning =>
          /\ tokens = AssembledTokens
          /\ SameOutside(output_tokens, tokens, covered_indexes)
          /\ \A p \in covered_indexes : tokens[p + 1] \notin {cls_id, sep_id}
    /\ PlannerReturned =>
          /\ SameOutside(tokens, AssembledTokens, Range(masked_positions))
          /\ \A p \in Range(masked_positions) :
                /\ AssembledTokens[p + 1] \notin {cls_id, sep_id}
                /\ p \notin {0, Len(tokens_a) + 1, Len(AssembledTokens) - 1}
          /\ output_tokens = tokens

\* C25 happens: the planner returned a list with a replaced id at a masked
\* position and the original id at a word position it did not mask
C25_Witness ==
    /\ PlannerReturned
    /\ \E p \in Range(masked_positions) : tokens[p + 1] # AssembledTokens[p + 1]
    /\ \E p \in 0..(Len(tokens) - 1) :
          /\ p \notin Range(masked_positions)
          /\ tokens[p + 1] \notin {cls_id, sep_id}
          /\ tokens[p + 1] = AssembledTokens[p + 1]

\* both assertions on entry of create_training_sample have passed
EntryChecksPassed ==
    \/ pc \in {"split", "swap", "truncate", "assemble", "mask", "mask_loop",
                "mask_commit", "pad", "build"}
    \/ pc = "done" /\ errline \notin {88, 89}

\* the assertion num_pad >= 0 has failed
PaddingCheckFailed == pc = "done" /\ err = "AssertionError" /\ errline = 301

\* the length the sample index is built for: max_seq_length less the three
\* added tokens
IndexBudget == max_seq_length - 3

\* C26, as claimed: once both entry assertions have passed, the assertion
\* num_pad >= 0 of pad_and_convert_to_numpy does not fail.
C26_EntryChecksSuffice == EntryChecksPassed => ~PaddingCheckFailed

\* C26, amended: once both entry assertions have passed with
\* target_seq_length <= max_seq_length - 3, pad_and_convert_to_numpy is
\* entered with at most max_seq_length tokens and its assertion
\* num_pad >= 0 does not fail, whatever the document's token count; the
\* assertion fails only with max_seq_length - 3 < target_seq_length <=
\* max_seq_length.
C26_IndexBudgetSuffices ==
    /\ (EntryChecksPassed /\ target_seq_length <= IndexBudget) =>
          /\ ~PaddingCheckFailed
          /\ pc = "pad" => Len(tokens) <= max_seq_length
    /\ PaddingCheckFailed =>
          /\ target_seq_length > IndexBudget
          /\ target_seq_length <= max_seq_length

\* C26 happens: a document that fills a target of max_seq_length - 3 wholly
\* gives arrays with no padding
C26_Witness ==
    /\ PadReturned
    /\ target_seq_length = IndexBudget
    /\ Len(Flatten(sample)) = target_seq_length
    /\ Len(tokens) = max_seq_length
    /\ \A i \in DOMAIN padding_mask_np : padding_mask_np[i] = 1

\* max(1, int(round(len(tokens) * mask_lm_prob))): num_to_predict without the
\* cap
UncappedNumToPredict == Max(1, RoundHalfEven(Len(AssembledTokens) * mask_lm_prob, 100))

\* C27: with the cap derived by __init__ and mask_lm_prob > 0, for a
\* sequence of at most max_seq_length tokens the planner's num_to_predict is
\* max(1, round(len * mask_lm_prob)): the cap is not below it.
C27_DerivedCapNeverBinds ==
    (pc = "mask_loop" /\ mask_lm_prob > 0 /\ Len(AssembledTokens) <= max_seq_length) =>
        /\ Len(tokens) = Len(AssembledTokens)
        /\ num_to_predict = UncappedNumToPredict
        /\ UncappedNumToPredict <= max_preds_per_seq

\* C27 happens: a full-length sequence whose num_to_predict is the derived
\* cap itself
C27_Witness ==
    /\ pc = "mask_loop"
    /\ mask_lm_prob > 0
    /\ mask_lm_prob < 100
    /\ Len(tokens) = max_seq_length
    /\ num_to_predict = max_preds_per_seq
    /\ num_to_predict = UncappedNumToPredict

====
